---- MODULE Spec2Model ----
(***************************************************************************)
(* Model of src/tanjun/injector.py: the Injected marker, the              *)
(* InjectorClient registry (type dependencies, callable overrides, the    *)
(* memoised type -> component mapping), the signature resolver and the    *)
(* InjectableCheck wrapper.                                                *)
(*                                                                         *)
(* Python objects are strings; a dict is a function whose absent keys map *)
(* to Absent (a lookup of an absent key is the KeyError / the .get        *)
(* default of the code).  The name `traits` (imported under               *)
(* typing.TYPE_CHECKING only) is taken to resolve to the tanjun.traits    *)
(* module, whose Client / Component / Context the code refers to.         *)
(***************************************************************************)
EXTENDS Integers, Sequences, FiniteSets, TLC

\* ---------------------------------------------------------------- bounds
NumComponents == 3
MaxParams == 2

\* ------------------------------------------------------------- universes
Absent == "<absent>"
UNDEFINED == "UNDEFINED"
None == "None"

Registries == {"R1", "R2"}
Clients == {"bot1", "bot2"}
Types == {"Config", "Bot", "CompA", "CompB", "object"}
Values == {"None", "cfg1", "cfg2"}
Callables == {"f", "g"}

CompNames == <<"c1", "c2", "c3", "c4", "c5", "c6">>
Components == {CompNames[i] : i \in 1..NumComponents}
CompIndex(c) == CHOOSE i \in 1..Len(CompNames) : CompNames[i] = c

\* type(component): the runtime type of a component
TypeOf(c) == IF CompIndex(c) % 2 = 1 THEN "CompA" ELSE "CompB"

\* bool(x): a component may define __bool__ / __len__; None is falsy; an
\* object without either (Undefined, InjectorClient, a function) is truthy
Truthy(x) ==
  IF x \in {None, Absent} THEN FALSE
  ELSE IF x \in Components THEN CompIndex(x) % 3 # 0
  ELSE TRUE

\* the classes: Bot, the class of the host clients, derives from
\* traits.Client, CompA and CompB derive from traits.Component, Config is a
\* plain class, and every class derives from object
IsSubclass(s, t) == s = t \/ t = "object"

\* type(client): the runtime type of a host client
TypeOfClient(cl) == "Bot"

\* issubclass(type_, traits.Client) / issubclass(type_, traits.Component)
IsClientType(t) == t = "Bot"
IsComponentType(t) == t \in {"CompA", "CompB"}

\* InjectorClient.__init__(client): the host each registry was built over
ClientOf(r) == IF r = "R1" THEN "bot1" ELSE "bot2"

\* a context exposes the host client and an optional current component
Contexts == [client : Clients, component : Components \cup {None}]

\* identities of the dict objects held in InjectorClient._component_mapping
MapIds == 1..(Cardinality(Registries) + 2)
NoRef == 0
EmptyMapping == [t \in {} |-> None]

VARIABLES
  typeDeps,      \* InjectorClient._type_dependencies, per registry
  overrides,     \* InjectorClient._callback_overrides, per registry
  components,    \* Client.components of each host client
  snapshot,      \* InjectorClient._component_mapping_values, per registry
  mappingRef,    \* identity of the dict InjectorClient._component_mapping
  heap,          \* content of every mapping dict, by identity
  held,          \* identity of a returned mapping dict a caller kept, NoRef if none
  getter,        \* a getter closure made by one of the getter factories
  callback,      \* InjectableCheck.callback: the wrapped callback's signature
  injector,      \* InjectableCheck.injector
  cached_getters,\* InjectableCheck._cached_getters
  is_async,      \* InjectableCheck.is_async
  result         \* outcome of the last operation

checkVars == <<callback, injector, cached_getters, is_async>>

vars == <<typeDeps, overrides, components, snapshot, mappingRef, heap, held, getter,
          callback, injector, cached_getters, is_async, result>>

NoCtx == [client |-> None, component |-> None]
NoGetter == [kind |-> "none", key |-> None, reg |-> None,
             default_to_client |-> FALSE, try_component |-> FALSE]
NoMarker == [tag |-> "none", callback |-> None, type |-> None]
NoKwargs == [callback |-> None, type |-> None]

\* what an operation gave back: a return value or a raised exception
Result(op, reg, arg, ctx, outcome, value, via, ref) ==
  [op |-> op, reg |-> reg, arg |-> arg, ctx |-> ctx, outcome |-> outcome,
   value |-> value, via |-> via, ref |-> ref,
   cb |-> <<>>, getters |-> <<>>, resolved |-> FALSE, applied |-> <<>>,
   invoked |-> FALSE, args |-> <<>>, shape |-> None, ends |-> None,
   awaited |-> FALSE, kwargs |-> NoKwargs, marker |-> NoMarker]

NoResult == Result("init", None, None, NoCtx, "return", None, "", 0)

\* ------------------------------------------------ InjectorClient.__init__
InitRegistry ==
  /\ typeDeps = [r \in Registries |-> [t \in Types |-> Absent]]
  /\ overrides = [r \in Registries |-> [f \in Callables \cup {UNDEFINED} |-> Absent]]
  /\ components = [cl \in Clients |-> {}]
  /\ snapshot = [r \in Registries |-> {}]
  /\ mappingRef = [r \in Registries |-> IF r = "R1" THEN 1 ELSE 2]
  /\ heap = [i \in MapIds |-> EmptyMapping]
  /\ held = NoRef
  /\ getter = NoGetter
  /\ result = NoResult

\* ----------------------------------------------- InjectableCheck.__init__
\* the slot _cached_getters is annotated and never assigned: it stays unset
Unset == [state |-> "unset", getters |-> <<>>]
CachedNone == [state |-> "None", getters |-> <<>>]
Cached(gs) == [state |-> "set", getters |-> gs]

InitialCachedGetters == Unset

NewCheck(cb) ==
  /\ callback = cb
  /\ injector = None
  /\ cached_getters = InitialCachedGetters
  /\ is_async = None

Init == InitRegistry /\ NewCheck(<<>>)

\* -------------------------------------------------- registration / lookup
AddTypeDependency(r, t, v) ==
  /\ typeDeps' = [typeDeps EXCEPT ![r][t] = v]
  /\ result' = Result("add_type_dependency", r, None, NoCtx, "return", None, "", 0)
  /\ UNCHANGED <<overrides, components, snapshot, mappingRef, heap, getter>>
  /\ UNCHANGED checkVars
  /\ UNCHANGED held

\* mutant of the lookup: self._type_dependencies.get(type_), no default
TypeDependencyOf_NoSentinel(deps, t) == IF deps[t] = Absent THEN None ELSE deps[t]

\* self._type_dependencies.get(type_, UNDEFINED)
TypeDependencyOf(deps, t) == IF deps[t] = Absent THEN UNDEFINED ELSE deps[t]

GetTypeDependency(r, t) ==
  /\ result' = Result("get_type_dependency", r, t, NoCtx, "return",
                      TypeDependencyOf(typeDeps[r], t), "", 0)
  /\ UNCHANGED <<typeDeps, overrides, components, snapshot, mappingRef, heap, getter>>
  /\ UNCHANGED checkVars
  /\ UNCHANGED held

AddCallableOverride(r, f, g) ==
  /\ overrides' = [overrides EXCEPT ![r][f] = g]
  /\ result' = Result("add_callable_override", r, None, NoCtx, "return", None, "", 0)
  /\ UNCHANGED <<typeDeps, components, snapshot, mappingRef, heap, getter>>
  /\ UNCHANGED checkVars
  /\ UNCHANGED held

\* self._callback_overrides.get(callback)
CallableOverrideOf(ovr, f) == IF ovr[f] = Absent THEN None ELSE ovr[f]

GetCallableOverride(r, f) ==
  /\ result' = Result("get_callable_override", r, f, NoCtx, "return",
                      CallableOverrideOf(overrides[r], f), "", 0)
  /\ UNCHANGED <<typeDeps, overrides, components, snapshot, mappingRef, heap, getter>>
  /\ UNCHANGED checkVars
  /\ UNCHANGED held

\* ------------------------------------------- the host's component collection
AddComponent(cl, c) ==
  /\ c \notin components[cl]
  /\ components' = [components EXCEPT ![cl] = @ \cup {c}]
  /\ result' = Result("add_component", None, None, NoCtx, "return", None, "", 0)
  /\ UNCHANGED <<typeDeps, overrides, snapshot, mappingRef, heap, getter>>
  /\ UNCHANGED checkVars
  /\ UNCHANGED held

RemoveComponent(cl, c) ==
  /\ c \in components[cl]
  /\ components' = [components EXCEPT ![cl] = @ \ {c}]
  /\ result' = Result("remove_component", None, None, NoCtx, "return", None, "", 0)
  /\ UNCHANGED <<typeDeps, overrides, snapshot, mappingRef, heap, getter>>
  /\ UNCHANGED checkVars
  /\ UNCHANGED held

\* ------------------------------------- InjectorClient._get_component_mapping
\* mutant of the staleness test: the two collections compared by size
NeedsRebuild_BySize(snap, comps) == Cardinality(snap) # Cardinality(comps)

\* mutant of the staleness test: rebuild whenever the host has components
NeedsRebuild_Always(snap, comps) == snap # comps \/ comps # {}

\* self._component_mapping_values != self._client.components
NeedsRebuild(snap, comps) == snap # comps

\* {type(component): component for component in components}: one entry per
\* runtime type; of several components of one type the last one iterated
\* stays, and a set iterates in no fixed order
BuiltMappings(comps) ==
  {m \in [{TypeOf(c) : c \in comps} -> comps] : \A t \in DOMAIN m : TypeOf(m[t]) = t}

\* the identities of the dicts still referenced, by a registry or a caller
Referenced == {mappingRef[x] : x \in Registries} \cup {held}

\* the identity of a newly created dict: none of the dicts still referenced
FreshId(r) ==
  CHOOSE i \in MapIds \ Referenced : \A j \in MapIds \ Referenced : i <= j

\* mutant of the rebuild: the old dict is left as it is
ComponentMappingStep_NoClear(r, m) ==
  IF NeedsRebuild(snapshot[r], components[ClientOf(r)])
  THEN /\ m \in BuiltMappings(components[ClientOf(r)])
       /\ heap' = [heap EXCEPT ![FreshId(r)] = m]
       /\ mappingRef' = [mappingRef EXCEPT ![r] = FreshId(r)]
       /\ snapshot' = [snapshot EXCEPT ![r] = components[ClientOf(r)]]
  ELSE /\ m = heap[mappingRef[r]]
       /\ UNCHANGED <<heap, mappingRef, snapshot>>

\* the state change of one call; m is the mapping the call returns
ComponentMappingStep(r, m) ==
  IF NeedsRebuild(snapshot[r], components[ClientOf(r)])
  THEN /\ m \in BuiltMappings(components[ClientOf(r)])
       /\ heap' = [heap EXCEPT ![mappingRef[r]] = EmptyMapping, ![FreshId(r)] = m]
       /\ mappingRef' = [mappingRef EXCEPT ![r] = FreshId(r)]
       /\ snapshot' = [snapshot EXCEPT ![r] = components[ClientOf(r)]]
  ELSE /\ m = heap[mappingRef[r]]
       /\ UNCHANGED <<heap, mappingRef, snapshot>>

\* every mapping a call on registry r can return in the current state
ReturnableMappings(r) ==
  BuiltMappings(components[ClientOf(r)]) \cup {heap[mappingRef[r]]}

GetComponentMapping(r) ==
  /\ \E m \in ReturnableMappings(r) : ComponentMappingStep(r, m)
  /\ result' = Result("_get_component_mapping", r, None, NoCtx, "return", None, "",
                      mappingRef'[r])
  /\ UNCHANGED <<typeDeps, overrides, components, getter>>
  /\ UNCHANGED checkVars
  /\ UNCHANGED held

\* the caller of _get_component_mapping() keeps the dict it was returned
KeepReference ==
  /\ result.op = "_get_component_mapping"
  /\ held' = result.ref
  /\ UNCHANGED <<typeDeps, overrides, components, snapshot, mappingRef, heap, getter>>
  /\ UNCHANGED checkVars
  /\ UNCHANGED result

\* --------------------------------------- InjectorClient._make_callback_getter
CallbackGetter(r, f) ==
  [kind |-> "callable", key |-> f, reg |-> r,
   default_to_client |-> FALSE, try_component |-> FALSE]

\* mutant of get(_): self._callback_overrides.get(callback), no default
CallbackGetterResult_NoDefault(g, ctx, ovr) ==
  Result("get", g.reg, g.key, ctx, "return",
         IF ovr[g.key] = Absent THEN None ELSE ovr[g.key], "callable", 0)

\* get(_): self._callback_overrides.get(callback, callback)
CallbackGetterResult(g, ctx, ovr) ==
  Result("get", g.reg, g.key, ctx, "return",
         IF ovr[g.key] = Absent THEN g.key ELSE ovr[g.key], "callable", 0)

MakeCallbackGetter(r, f) ==
  /\ getter' = CallbackGetter(r, f)
  /\ result' = Result("_make_callback_getter", r, None, NoCtx, "return", None, "", 0)
  /\ UNCHANGED <<typeDeps, overrides, components, snapshot, mappingRef, heap>>
  /\ UNCHANGED checkVars
  /\ UNCHANGED held

\* ------------------------------------------- InjectorClient._make_type_getter
TypeGetter(r, t) ==
  [kind |-> "type", key |-> t, reg |-> r,
   default_to_client |-> IsClientType(t), try_component |-> IsComponentType(t)]

\* dict.get(key): None when the key is absent
MappingGet(m, t) == IF t \in DOMAIN m THEN m[t] ELSE None

\* whether get(ctx) reaches the call of self._get_component_mapping()
ConsultsMapping(g, deps) ==
  /\ g.kind = "type"
  /\ deps[g.key] = Absent
  /\ ~g.default_to_client
  /\ g.try_component

\* mutants of get(ctx): a registered value is taken only when truthy; the
\* context's current component is tried for every type
TypeGetterResult_TruthyDependency(g, ctx, deps, m) ==
  IF Truthy(deps[g.key])
  THEN Result("get", g.reg, g.key, ctx, "return", deps[g.key], "type_dependencies", 0)
  ELSE IF g.default_to_client
  THEN Result("get", g.reg, g.key, ctx, "return", ctx.client, "client", 0)
  ELSE IF g.try_component /\ Truthy(MappingGet(m, g.key))
  THEN Result("get", g.reg, g.key, ctx, "return", MappingGet(m, g.key),
              "component_mapping", 0)
  ELSE IF g.try_component /\ Truthy(ctx.component)
  THEN Result("get", g.reg, g.key, ctx, "return", ctx.component, "ctx_component", 0)
  ELSE Result("get", g.reg, g.key, ctx, "RuntimeError", g.key,
              "Couldn't resolve injected type", 0)

TypeGetterResult_AnyTypeFallback(g, ctx, deps, m) ==
  IF deps[g.key] # Absent
  THEN Result("get", g.reg, g.key, ctx, "return", deps[g.key], "type_dependencies", 0)
  ELSE IF g.default_to_client
  THEN Result("get", g.reg, g.key, ctx, "return", ctx.client, "client", 0)
  ELSE IF g.try_component /\ Truthy(MappingGet(m, g.key))
  THEN Result("get", g.reg, g.key, ctx, "return", MappingGet(m, g.key),
              "component_mapping", 0)
  ELSE IF Truthy(ctx.component)
  THEN Result("get", g.reg, g.key, ctx, "return", ctx.component, "ctx_component", 0)
  ELSE Result("get", g.reg, g.key, ctx, "RuntimeError", g.key,
              "Couldn't resolve injected type", 0)

\* mutant of get(ctx): the client of the registry for the client of the
\* context
TypeGetterResult_RegistryClient(g, ctx, deps, m) ==
  IF deps[g.key] # Absent
  THEN Result("get", g.reg, g.key, ctx, "return", deps[g.key], "type_dependencies", 0)
  ELSE IF g.default_to_client
  THEN Result("get", g.reg, g.key, ctx, "return", ClientOf(g.reg), "client", 0)
  ELSE IF g.try_component /\ Truthy(MappingGet(m, g.key))
  THEN Result("get", g.reg, g.key, ctx, "return", MappingGet(m, g.key),
              "component_mapping", 0)
  ELSE IF g.try_component /\ Truthy(ctx.component)
  THEN Result("get", g.reg, g.key, ctx, "return", ctx.component, "ctx_component", 0)
  ELSE Result("get", g.reg, g.key, ctx, "RuntimeError", g.key,
              "Couldn't resolve injected type", 0)

\* get(ctx); deps is self._type_dependencies and m the mapping that
\* self._get_component_mapping() returns when the getter consults it
TypeGetterResult(g, ctx, deps, m) ==
  IF deps[g.key] # Absent
  THEN Result("get", g.reg, g.key, ctx, "return", deps[g.key], "type_dependencies", 0)
  ELSE IF g.default_to_client
  THEN Result("get", g.reg, g.key, ctx, "return", ctx.client, "client", 0)
  ELSE IF g.try_component /\ Truthy(MappingGet(m, g.key))
  THEN Result("get", g.reg, g.key, ctx, "return", MappingGet(m, g.key),
              "component_mapping", 0)
  ELSE IF g.try_component /\ Truthy(ctx.component)
  THEN Result("get", g.reg, g.key, ctx, "return", ctx.component, "ctx_component", 0)
  ELSE Result("get", g.reg, g.key, ctx, "RuntimeError", g.key,
              "Couldn't resolve injected type", 0)

MakeTypeGetter(r, t) ==
  /\ getter' = TypeGetter(r, t)
  /\ result' = Result("_make_type_getter", r, None, NoCtx, "return", None, "", 0)
  /\ UNCHANGED <<typeDeps, overrides, components, snapshot, mappingRef, heap>>
  /\ UNCHANGED checkVars
  /\ UNCHANGED held

\* ------------------------------------------------- applying a getter: get(ctx)
ApplyGetter(ctx) ==
  /\ getter.kind # "none"
  /\ IF getter.kind = "callable"
     THEN /\ result' = CallbackGetterResult(getter, ctx, overrides[getter.reg])
          /\ UNCHANGED <<heap, mappingRef, snapshot>>
     ELSE IF ConsultsMapping(getter, typeDeps[getter.reg])
     THEN \E m \in ReturnableMappings(getter.reg) :
            /\ ComponentMappingStep(getter.reg, m)
            /\ result' = TypeGetterResult(getter, ctx, typeDeps[getter.reg], m)
     ELSE /\ result' = TypeGetterResult(getter, ctx, typeDeps[getter.reg], EmptyMapping)
          /\ UNCHANGED <<heap, mappingRef, snapshot>>
  /\ UNCHANGED <<typeDeps, overrides, components, getter>>
  /\ UNCHANGED checkVars
  /\ UNCHANGED held

\* ----------------------------------------------------------------- Injected
\* an Injected marker holds a callback or a type, UNDEFINED for the other
Marker(c, t) == [tag |-> "marker", callback |-> c, type |-> t]

\* mutant of Injected.__init__: the test of lines 77-78 left out
InjectedResult_AllowBoth(c, t) ==
  IF c = UNDEFINED /\ t = UNDEFINED
  THEN [outcome |-> "ValueError", via |-> "Must specify one of callback or type",
        marker |-> NoMarker]
  ELSE [outcome |-> "return", via |-> "", marker |-> Marker(c, t)]

\* Injected.__init__(*, callback=UNDEFINED, type=UNDEFINED): both keywords
\* are compared with the sentinel by identity
InjectedResult(c, t) ==
  IF c = UNDEFINED /\ t = UNDEFINED
  THEN [outcome |-> "ValueError", via |-> "Must specify one of callback or type",
        marker |-> NoMarker]
  ELSE IF c # UNDEFINED /\ t # UNDEFINED
  THEN [outcome |-> "ValueError",
        via |-> "Only one of callback or type can be specified",
        marker |-> NoMarker]
  ELSE [outcome |-> "return", via |-> "", marker |-> Marker(c, t)]

\* what a caller can pass for the two keywords
MarkerCallbacks == Callables \cup {UNDEFINED, None}
MarkerTypes == Types \cup {UNDEFINED}

\* Injected(callback=c, type=t)
NewInjected(c, t) ==
  /\ result' = [Result("Injected", None, None, NoCtx, InjectedResult(c, t).outcome,
                       None, InjectedResult(c, t).via, 0)
                  EXCEPT !.kwargs = [callback |-> c, type |-> t],
                         !.marker = InjectedResult(c, t).marker]
  /\ UNCHANGED <<typeDeps, overrides, components, snapshot, mappingRef, heap, getter>>
  /\ UNCHANGED checkVars
  /\ UNCHANGED held

\* the other defaults a parameter can have: inspect.Parameter.empty (no
\* default); a value that is no class (5, None, "x"); a class that the class
\* Injected is no instance of (int); a class it is an instance of (object)
EmptyDefault == [tag |-> "empty", callback |-> None, type |-> None]
ValueDefault == [tag |-> "value", callback |-> None, type |-> None]
ClassDefault == [tag |-> "class", callback |-> None, type |-> None]
ObjectDefault == [tag |-> "object", callback |-> None, type |-> None]

Defaults ==
  {EmptyDefault, ValueDefault, ClassDefault, ObjectDefault,
   Marker("f", UNDEFINED), Marker(UNDEFINED, "Config")}

\* inspect.signature(callback).parameters: name, kind and default of each
ParamNames == <<"cfg", "b", "c", "d">>
ParamKinds == {"POSITIONAL_ONLY", "POSITIONAL_OR_KEYWORD", "KEYWORD_ONLY"}
KindRank(k) ==
  IF k = "POSITIONAL_ONLY" THEN 1 ELSE IF k = "POSITIONAL_OR_KEYWORD" THEN 2 ELSE 3

\* the signatures Python accepts: kinds in order, and among the positional
\* parameters none without a default after one with a default
ValidSignature(cb) ==
  \A i \in 1..Len(cb) :
    /\ cb[i].name = ParamNames[i]
    /\ \A j \in 1..Len(cb) :
         i < j => /\ KindRank(cb[i].kind) <= KindRank(cb[j].kind)
                  /\ (/\ cb[j].kind # "KEYWORD_ONLY"
                      /\ cb[i].default # EmptyDefault) => cb[j].default # EmptyDefault

Params == [name : {ParamNames[i] : i \in 1..MaxParams}, kind : ParamKinds, default : Defaults]

Callbacks ==
  {cb \in UNION {[1..n -> Params] : n \in 0..MaxParams} : ValidSignature(cb)}

\* isinstance(Injected, parameter.default): the class Injected tested against
\* the default as the class; a default that is no class raises TypeError
IsInstanceOfDefault(d) ==
  IF d.tag \in {"value", "marker"} THEN "TypeError"
  ELSE IF d.tag = "object" THEN "True"
  ELSE "False"

\* outcome of one pass of resolve_callback_to_getters over cb[i..], acc the
\* getters dict so far (in insertion order)
RECURSIVE ResolveFrom(_, _, _, _)
ResolveFrom(r, cb, i, acc) ==
  IF i > Len(cb) THEN [outcome |-> "return", getters |-> acc]
  ELSE IF IsInstanceOfDefault(cb[i].default) = "TypeError"
  THEN [outcome |-> "TypeError", getters |-> <<>>]
  ELSE IF IsInstanceOfDefault(cb[i].default) = "False"
  THEN ResolveFrom(r, cb, i + 1, acc)
  ELSE IF cb[i].kind = "POSITIONAL_ONLY"
  THEN [outcome |-> "ValueError", getters |-> <<>>]
  ELSE IF cb[i].default.tag # "marker"
  THEN [outcome |-> "AttributeError", getters |-> <<>>]
  ELSE IF Truthy(cb[i].default.callback)
  THEN ResolveFrom(r, cb, i + 1,
         Append(acc, [name |-> cb[i].name,
                      getter |-> CallbackGetter(r, cb[i].default.callback)]))
  ELSE IF cb[i].default.type = UNDEFINED
  THEN [outcome |-> "AssertionError", getters |-> <<>>]
  ELSE ResolveFrom(r, cb, i + 1,
         Append(acc, [name |-> cb[i].name,
                      getter |-> TypeGetter(r, cb[i].default.type)]))

ResolveCallbackToGettersResult(r, cb) == ResolveFrom(r, cb, 1, <<>>)

\* InjectorClient.resolve_callback_to_getters(callback)
ResolveCallbackToGetters(r, cb) ==
  /\ result' = [Result("resolve_callback_to_getters", r, None, NoCtx,
                       ResolveCallbackToGettersResult(r, cb).outcome, None, "", 0)
                  EXCEPT !.cb = cb,
                         !.getters = ResolveCallbackToGettersResult(r, cb).getters,
                         !.resolved = TRUE]
  /\ UNCHANGED <<typeDeps, overrides, components, snapshot, mappingRef, heap, getter>>
  /\ UNCHANGED checkVars
  /\ UNCHANGED held

\* mutant of add_injector: the registry is replaced without the guard
AddInjector_Overwrite(r) ==
  /\ injector' = r
  /\ result' = Result("add_injector", r, None, NoCtx, "return", None, "", 0)
  /\ UNCHANGED <<callback, cached_getters, is_async>>
  /\ UNCHANGED <<typeDeps, overrides, components, snapshot, mappingRef, heap, getter>>
  /\ UNCHANGED held

\* ------------------------------------------- InjectableCheck.add_injector
AddInjector(r) ==
  /\ IF Truthy(injector)
     THEN /\ result' = Result("add_injector", r, None, NoCtx, "RuntimeError", None,
                              "Injector already set for this check", 0)
          /\ UNCHANGED injector
     ELSE /\ injector' = r
          /\ result' = Result("add_injector", r, None, NoCtx, "return", None, "", 0)
  /\ UNCHANGED <<callback, cached_getters, is_async>>
  /\ UNCHANGED <<typeDeps, overrides, components, snapshot, mappingRef, heap, getter>>
  /\ UNCHANGED held

\* ---------------------------------------------- InjectableCheck.__call__
\* getter(ctx) for a getter of either kind
GetterResult(g, ctx, m) ==
  IF g.kind = "callable"
  THEN CallbackGetterResult(g, ctx, overrides[g.reg])
  ELSE TypeGetterResult(g, ctx, typeDeps[g.reg], m)

\* the dict comprehension applies the getters in the dict's order and stops
\* at the first that raises: its index, 0 when none raises
FirstFailure(gs, ctx, m) ==
  IF \A i \in 1..Len(gs) : GetterResult(gs[i].getter, ctx, m).outcome = "return"
  THEN 0
  ELSE CHOOSE i \in 1..Len(gs) :
         /\ GetterResult(gs[i].getter, ctx, m).outcome # "return"
         /\ \A j \in 1..(i - 1) : GetterResult(gs[j].getter, ctx, m).outcome = "return"

\* the names of the first n getters
NamesOf(gs, n) == [i \in 1..n |-> gs[i].name]

\* self.callback(*{...}): a dict unpacked with * yields its keys, so the
\* positional arguments are the parameter names
CallArguments(gs, ctx, m) == [i \in 1..Len(gs) |-> gs[i].name]

\* binding positional arguments to the signature: too many of them, or a
\* parameter without default left unfilled, is a TypeError
Bind(cb, args) ==
  IF Len(args) > Cardinality({i \in 1..Len(cb) : cb[i].kind # "KEYWORD_ONLY"})
  THEN [outcome |-> "TypeError", bound |-> <<>>]
  ELSE IF \E i \in 1..Len(cb) : i > Len(args) /\ cb[i].default = EmptyDefault
  THEN [outcome |-> "TypeError", bound |-> <<>>]
  ELSE [outcome |-> "ok",
        bound |-> [i \in 1..Len(cb) |-> IF i <= Len(args) THEN args[i] ELSE "<default>"]]

\* cfg.enabled
Enabled(v) ==
  IF v = "cfg1" THEN "True" ELSE IF v = "cfg2" THEN "False" ELSE "AttributeError"

\* the body of the wrapped callback: a callback with a parameter cfg gives
\* cfg.enabled, any other the boolean b
CallbackBody(cb, bound, b) ==
  IF \E i \in 1..Len(cb) : cb[i].name = "cfg"
  THEN Enabled(bound[CHOOSE i \in 1..Len(cb) : cb[i].name = "cfg"])
  ELSE b

CallResult(ctx, outcome, value, via, resolved, applied, invoked, args, shape, awaited) ==
  [Result("call", injector, None, ctx, outcome, value, via, 0)
     EXCEPT !.cb = callback, !.resolved = resolved, !.applied = applied,
            !.invoked = invoked, !.args = args, !.shape = shape, !.awaited = awaited]

\* lines 203-213: the result object of shape `shape` is awaited or not by
\* the flag, which the first result decides; body is what the callback's
\* code produces and aw how an await of it ends
Finish(ctx, gs, resolved, args, shape, aw, body) ==
  LET flag == IF is_async = None
              THEN (IF shape = "awaitable" THEN "True" ELSE "False")
              ELSE is_async
      names == NamesOf(gs, Len(gs))
      res ==
        IF flag = "True" /\ shape # "awaitable"
        THEN CallResult(ctx, "AssertionError", None, "", resolved, names, TRUE, args, shape, FALSE)
        ELSE IF flag = "False" /\ shape = "awaitable"
        THEN CallResult(ctx, "AssertionError", None, "", resolved, names, TRUE, args, shape, FALSE)
        ELSE IF flag = "False"
        THEN CallResult(ctx, "return", body, "", resolved, names, TRUE, args, shape, FALSE)
        ELSE IF aw = "cancel"
        THEN CallResult(ctx, "CancelledError", None, "", resolved, names, TRUE, args, shape, TRUE)
        ELSE IF aw = "raise"
        THEN CallResult(ctx, "Exception", None, "", resolved, names, TRUE, args, shape, TRUE)
        ELSE IF body = "AttributeError"
        THEN CallResult(ctx, "AttributeError", None, "", resolved, names, TRUE, args, shape, TRUE)
        ELSE CallResult(ctx, "return", body, "", resolved, names, TRUE, args, shape, TRUE)
  IN [res |-> res, cached |-> Cached(gs), is_async |-> flag, applied |-> Len(gs)]

\* lines 201: the getters are applied, then the callback is called
Invoke(ctx, gs, resolved, shape, aw, b, m) ==
  LET ff == FirstFailure(gs, ctx, m)
      args == CallArguments(gs, ctx, m)
      bind == Bind(callback, args)
      body == CallbackBody(callback, bind.bound, b)
  IN IF ff # 0
     THEN [res |-> CallResult(ctx, GetterResult(gs[ff].getter, ctx, m).outcome,
                              GetterResult(gs[ff].getter, ctx, m).value,
                              GetterResult(gs[ff].getter, ctx, m).via,
                              resolved, NamesOf(gs, ff), FALSE, <<>>, None, FALSE),
           cached |-> Cached(gs), is_async |-> is_async, applied |-> ff]
     ELSE IF bind.outcome # "ok"
     THEN [res |-> CallResult(ctx, "TypeError", None, "", resolved, NamesOf(gs, Len(gs)),
                              FALSE, args, None, FALSE),
           cached |-> Cached(gs), is_async |-> is_async, applied |-> Len(gs)]
     ELSE IF shape # "awaitable" /\ (aw = "raise" \/ body = "AttributeError")
     THEN [res |-> CallResult(ctx, IF aw = "raise" THEN "Exception" ELSE "AttributeError",
                              None, "", resolved, NamesOf(gs, Len(gs)), TRUE, args, None, FALSE),
           cached |-> Cached(gs), is_async |-> is_async, applied |-> Len(gs)]
     ELSE Finish(ctx, gs, resolved, args, shape, aw, body)

\* the whole of __call__(ctx): what it gives back and what it leaves in the
\* wrapper; m is the mapping _get_component_mapping() returns when asked
CallOutcome(ctx, shape, aw, b, m) ==
  IF injector = None
  THEN [res |-> CallResult(ctx, "RuntimeError", None,
                           "Cannot call an injectable check before the injector has been set",
                           FALSE, <<>>, FALSE, <<>>, None, FALSE),
        cached |-> cached_getters, is_async |-> is_async, applied |-> 0]
  ELSE IF cached_getters.state = "unset"
  THEN [res |-> CallResult(ctx, "AttributeError", None, "_cached_getters",
                           FALSE, <<>>, FALSE, <<>>, None, FALSE),
        cached |-> cached_getters, is_async |-> is_async, applied |-> 0]
  ELSE IF cached_getters.state = "set"
  THEN Invoke(ctx, cached_getters.getters, FALSE, shape, aw, b, m)
  ELSE IF ResolveCallbackToGettersResult(injector, callback).outcome # "return"
  THEN [res |-> CallResult(ctx, ResolveCallbackToGettersResult(injector, callback).outcome,
                           None, "", TRUE, <<>>, FALSE, <<>>, None, FALSE),
        cached |-> cached_getters, is_async |-> is_async, applied |-> 0]
  ELSE Invoke(ctx, ResolveCallbackToGettersResult(injector, callback).getters,
              TRUE, shape, aw, b, m)

\* whether one of the first n getters applied asked for the component mapping
AnyConsults(gs, n) ==
  \E i \in 1..n : ConsultsMapping(gs[i].getter, typeDeps[gs[i].getter.reg])

Shapes == {"awaitable", "bool"}
AwaitEnds == {"value", "raise", "cancel"}
Booleans == {"True", "False"}

Call(ctx, shape, aw, b) ==
  /\ shape = "bool" => aw # "cancel"
  /\ \E m \in (IF injector = None THEN {EmptyMapping} ELSE ReturnableMappings(injector)) :
       LET out == CallOutcome(ctx, shape, aw, b, m) IN
         /\ result' = [out.res EXCEPT !.shape = shape, !.ends = aw]
         /\ cached_getters' = out.cached
         /\ is_async' = out.is_async
         /\ IF out.applied > 0 /\ AnyConsults(out.cached.getters, out.applied)
            THEN ComponentMappingStep(injector, m)
            ELSE /\ m = EmptyMapping
                 /\ UNCHANGED <<heap, mappingRef, snapshot>>
  /\ UNCHANGED <<callback, injector>>
  /\ UNCHANGED <<typeDeps, overrides, components, getter>>
  /\ UNCHANGED held

\* ------------------------------------------------------- specifications
\* Spec: type dependencies and type getters of registry R1, whose host gains
\* and loses the component c1
SpecValues == {"None", "cfg1"}

Next ==
  \/ \E t \in Types, v \in SpecValues : AddTypeDependency("R1", t, v)
  \/ AddComponent("bot1", "c1")
  \/ RemoveComponent("bot1", "c1")
  \/ \E t \in Types : MakeTypeGetter("R1", t)
  \/ \E ctx \in Contexts : ApplyGetter(ctx)

Spec == Init /\ [][Next]_vars

\* SpecLookup: registrations and lookups of registry R1, and callable getters
LookupTypes == {"Config", "CompA"}

NextLookup ==
  \/ \E t \in LookupTypes, v \in Values : AddTypeDependency("R1", t, v)
  \/ \E t \in LookupTypes : GetTypeDependency("R1", t)
  \/ \E f \in Callables, g \in Callables : AddCallableOverride("R1", f, g)
  \/ \E f \in Callables : GetCallableOverride("R1", f)
  \/ \E f \in Callables : MakeCallbackGetter("R1", f)
  \/ \E ctx \in Contexts : ApplyGetter(ctx)

SpecLookup == Init /\ [][NextLookup]_vars

\* SpecComponents: the component mapping of registry R1 while its host's
\* component collection changes, read directly (by a caller that may keep
\* the dict it is returned) and through type getters
NextComponents ==
  \/ \E c \in Components : AddComponent("bot1", c)
  \/ \E c \in Components : RemoveComponent("bot1", c)
  \/ GetComponentMapping("R1")
  \/ KeepReference
  \/ \E t \in {"CompA", "CompB"} : MakeTypeGetter("R1", t)
  \/ \E ctx \in Contexts : ApplyGetter(ctx)

SpecComponents == Init /\ [][NextComponents]_vars

\* SpecResolver: the construction of markers and the signature resolver of
\* registry R1 over every callback
NextResolver ==
  \/ \E c \in MarkerCallbacks, t \in MarkerTypes : NewInjected(c, t)
  \/ \E cb \in Callbacks : ResolveCallbackToGetters("R1", cb)

SpecResolver == Init /\ [][NextResolver]_vars

\* SpecWrapper: one InjectableCheck over a callback of at most one parameter,
\* the two registries it can be attached to, and the Config dependency
WrappedCallbacks == {cb \in Callbacks : Len(cb) <= 1}

WrapperContexts ==
  {ctx \in Contexts : ctx.client = "bot1" /\ ctx.component \in {None, "c1"}}

InitWrapper == InitRegistry /\ \E cb \in WrappedCallbacks : NewCheck(cb)

NextWrapper ==
  \/ \E r \in Registries, v \in Values : AddTypeDependency(r, "Config", v)
  \/ \E r \in Registries : AddInjector(r)
  \/ \E ctx \in WrapperContexts, shape \in Shapes, aw \in AwaitEnds, b \in Booleans :
       Call(ctx, shape, aw, b)

SpecWrapper == InitWrapper /\ [][NextWrapper]_vars

\* ------------------------------------------------------------- claims
\* the last operation applied a type getter
TypeGetApplied == result.op = "get" /\ getter.kind = "type"

\* C1: a type getter applied while its type t is registered returns the
\* registered value, whatever t also matches and whatever the context holds,
\* and also when the value is falsy
C1_RegisteredTypeWins ==
  (TypeGetApplied /\ typeDeps[result.reg][result.arg] # Absent)
    => /\ result.outcome = "return"
       /\ result.value = typeDeps[result.reg][result.arg]

\* C1 witness: the component type CompA is registered as None while the host
\* holds a CompA component and the context has a current component
C1_Witness ==
  /\ TypeGetApplied
  /\ result.arg = "CompA"
  /\ typeDeps["R1"]["CompA"] = None
  /\ "c1" \in components["bot1"]
  /\ result.ctx.component = "c1"
  /\ result.value = None

\* C2: a type getter for a type that is not registered and is neither a
\* client type nor a component type raises the unresolved-dependency error
\* naming the type, in every context
C2_UnresolvedTypeFails ==
  (/\ TypeGetApplied
   /\ typeDeps[result.reg][result.arg] = Absent
   /\ ~IsClientType(result.arg)
   /\ ~IsComponentType(result.arg))
    => /\ result.outcome = "RuntimeError"
       /\ result.via = "Couldn't resolve injected type"
       /\ result.value = result.arg

\* C2 witness: Config is unregistered and the context has a current component
C2_Witness ==
  /\ TypeGetApplied
  /\ result.arg = "Config"
  /\ typeDeps["R1"]["Config"] = Absent
  /\ result.ctx.component = "c1"
  /\ result.outcome = "RuntimeError"

\* the last operation applied a callable getter
CallableGetApplied == result.op = "get" /\ getter.kind = "callable"

\* C4: a callable getter returns the override registered last for its
\* callable at the time it is applied, and the callable itself when there is
\* none; the context plays no part
C4_OverrideTakesPrecedence ==
  CallableGetApplied
    => /\ result.outcome = "return"
       /\ result.value = IF overrides[result.reg][result.arg] = Absent
                         THEN result.arg
                         ELSE overrides[result.reg][result.arg]

\* C4 witness: f is overridden by g and its getter, applied to a context with
\* a current component, returns g
C4_Witness ==
  /\ CallableGetApplied
  /\ result.arg = "f"
  /\ overrides["R1"]["f"] = "g"
  /\ result.value = "g"
  /\ result.ctx.component # None

\* the mapping m reflects exactly the component set cs
MappingExact(m, cs) ==
  /\ \A t \in DOMAIN m : TypeOf(m[t]) = t /\ m[t] \in cs
  /\ \A c \in cs : TypeOf(c) \in DOMAIN m

\* C7: every return of _get_component_mapping() yields a mapping that
\* reflects exactly the host's current components, and a type getter that
\* answers from the mapping answers with a current component of that type
C7_RebuildCorrect ==
  /\ result.op = "_get_component_mapping"
       => MappingExact(heap[result.ref], components[ClientOf(result.reg)])
  /\ (TypeGetApplied /\ result.via = "component_mapping")
       => /\ result.value \in components[ClientOf(result.reg)]
          /\ TypeOf(result.value) = result.arg

\* C7 witness: with c1 no longer in the host's set and c3 of the same type in
\* it, the returned mapping holds c3 under CompA
C7_Witness ==
  /\ result.op = "_get_component_mapping"
  /\ components["bot1"] = {"c2", "c3"}
  /\ heap[result.ref]["CompA"] = "c3"
  /\ heap[result.ref]["CompB"] = "c2"

\* the last operation called _get_component_mapping() on registry r
ResolvedMapping(res, r) ==
  /\ res.reg = r
  /\ \/ res.op = "_get_component_mapping"
     \/ res.op = "get" /\ res.via \in {"component_mapping", "ctx_component",
                                       "Couldn't resolve injected type"}
                       /\ ConsultsMapping(getter, typeDeps[r])

\* C8: a call of _get_component_mapping() that follows another call with no
\* change of the host's set in between, or that is the first operation on a
\* fresh registry, leaves mapping, snapshot and dict identity untouched and
\* returns the same dict
C8_CacheIdempotent ==
  [][\A r \in Registries :
       (/\ result'.op = "_get_component_mapping" /\ result'.reg = r
        /\ (ResolvedMapping(result, r) \/ result.op = "init"))
         => /\ heap' = heap
            /\ snapshot' = snapshot
            /\ mappingRef' = mappingRef
            /\ result'.ref = mappingRef[r]]_vars

\* C8 witness: a call has returned a non-empty mapping built from the host's
\* current set, the state from which a second call is a cache hit
C8_Witness ==
  /\ result.op = "_get_component_mapping"
  /\ snapshot["R1"] = components["bot1"]
  /\ components["bot1"] = {"c1", "c2"}
  /\ DOMAIN heap[result.ref] = {"CompA", "CompB"}

\* C9: get_type_dependency gives the Undefined sentinel for a type never
\* registered and the value registered last otherwise (None included);
\* get_callable_override gives None for a callable never overridden; neither
\* raises nor changes a mapping of the registry
C9_LookupsReportAbsence ==
  /\ [](result.op = "get_type_dependency"
          => /\ result.outcome = "return"
             /\ result.value = IF typeDeps[result.reg][result.arg] = Absent
                               THEN UNDEFINED
                               ELSE typeDeps[result.reg][result.arg])
  /\ [](result.op = "get_callable_override"
          => /\ result.outcome = "return"
             /\ (overrides[result.reg][result.arg] = Absent => result.value = None))
  /\ [][result'.op \in {"get_type_dependency", "get_callable_override"}
          => UNCHANGED <<typeDeps, overrides, snapshot, mappingRef, heap>>]_vars

\* C9 witness: Config is registered as None, CompA not at all, and the lookup
\* of Config returned None, not the sentinel
C9_Witness ==
  /\ result.op = "get_type_dependency"
  /\ result.arg = "Config"
  /\ typeDeps["R1"]["Config"] = None
  /\ typeDeps["R1"]["CompA"] = Absent
  /\ result.value = None

\* the names of the parameters of cb whose default is an injection marker
InjectedNames(cb) == {cb[i].name : i \in {j \in 1..Len(cb) : cb[j].default.tag = "marker"}}

\* the keys of a getters dict
GetterNames(gs) == {gs[i].name : i \in 1..Len(gs)}

\* cb has an injected parameter that is positional-only
HasPositionalOnlyInjected(cb) ==
  \E i \in 1..Len(cb) :
    cb[i].default.tag = "marker" /\ cb[i].kind = "POSITIONAL_ONLY"

\* C10: for a callback with no positional-only injected parameter,
\* resolve_callback_to_getters returns, and the keys of what it returns are
\* exactly the names of the marker-defaulted parameters
C10_ResolverKeysAreInjectedNames ==
  (result.op = "resolve_callback_to_getters" /\ ~HasPositionalOnlyInjected(result.cb))
    => /\ result.outcome = "return"
       /\ GetterNames(result.getters) = InjectedNames(result.cb)

\* the callback of the end-to-end scenario: check(cfg = Injected(type=Config))
CheckCallback ==
  <<[name |-> "cfg", kind |-> "POSITIONAL_OR_KEYWORD",
     default |-> Marker(UNDEFINED, "Config")]>>

\* C3: a call of the wrapper over check, attached to a registry where Config
\* is registered as a configuration object, returns that object's enabled
\* flag as it is registered at the time of the call
C3_EndToEndLiveRead ==
  (/\ result.op = "call"
   /\ callback = CheckCallback
   /\ injector # None
   /\ typeDeps[result.reg]["Config"] \in {"cfg1", "cfg2"})
    => /\ result.outcome = "return"
       /\ result.value = Enabled(typeDeps[result.reg]["Config"])

\* C5: a wrapper starts unbound; add_injector binds an unbound wrapper and
\* fails on a bound one, leaving its registry in place; a call on an unbound
\* wrapper fails with the configuration error without resolving getters or
\* invoking the callback; a bound wrapper never becomes unbound
C5_WrapperLifecycle ==
  /\ [](result.op = "init" => injector = None)
  /\ [][result'.op = "add_injector"
          => IF injector = None
             THEN result'.outcome = "return" /\ injector' = result'.reg
             ELSE /\ result'.outcome = "RuntimeError"
                  /\ result'.via = "Injector already set for this check"
                  /\ injector' = injector]_vars
  /\ [][(result'.op = "call" /\ injector = None)
          => /\ result'.outcome = "RuntimeError"
             /\ result'.via =
                  "Cannot call an injectable check before the injector has been set"
             /\ ~result'.resolved
             /\ ~result'.invoked
             /\ UNCHANGED <<injector, cached_getters, is_async>>]_vars
  /\ [][injector # None => injector' = injector]_vars

\* C5 witness: a wrapper bound to R1 has refused the registry R2
C5_Witness ==
  /\ result.op = "add_injector"
  /\ result.reg = "R2"
  /\ result.outcome = "RuntimeError"
  /\ injector = "R1"

\* C6: once a call on a bound wrapper has got a result from the callback
\* (here the callback without parameters, when it does not raise at once),
\* the flag is decided, it is never changed afterwards, and a result is
\* awaited only under a flag that says awaitable
C6_AsyncDetectionSticky ==
  /\ []((/\ result.op = "call"
         /\ injector # None
         /\ Len(callback) = 0
         /\ ~(result.shape = "bool" /\ result.ends = "raise"))
          => /\ is_async \in {"True", "False"}
             /\ result.invoked
             /\ result.awaited => is_async = "True")
  /\ [][is_async # None => is_async' = is_async]_vars

\* C11: resolve_callback_to_getters raises the configuration error (the
\* ValueError about positional-only arguments) exactly for the callbacks that
\* have a positional-only parameter whose default is an injection marker
C11_PositionalOnlyInjectedRejected ==
  result.op = "resolve_callback_to_getters"
    => (result.outcome = "ValueError" <=> HasPositionalOnlyInjected(result.cb))

\* C12: Injected(callback=..., type=...) returns a marker exactly when one of
\* the two keywords is supplied (is not the Undefined sentinel) and raises
\* ValueError otherwise; the marker holds what was supplied and the sentinel
\* for the other
C12_MarkerHoldsExactlyOne ==
  result.op = "Injected"
    => /\ result.outcome = "return"
            <=> ((result.kwargs.callback = UNDEFINED) # (result.kwargs.type = UNDEFINED))
       /\ result.outcome # "return"
            => result.outcome = "ValueError" /\ result.marker = NoMarker
       /\ result.outcome = "return"
            => /\ result.marker.tag = "marker"
               /\ result.marker.callback = result.kwargs.callback
               /\ result.marker.type = result.kwargs.type
               /\ UNDEFINED \in {result.marker.callback, result.marker.type}

\* C12 witness: Injected(callback=f, type=Config) has been refused
C12_Witness ==
  /\ result.op = "Injected"
  /\ result.kwargs = [callback |-> "f", type |-> "Config"]
  /\ result.outcome = "ValueError"

\* the getter the marker d stands for: a callable getter over the callable it
\* was constructed with, a type getter over its type when it has none
GetterOfMarker(r, d) ==
  IF d.callback # UNDEFINED THEN CallbackGetter(r, d.callback) ELSE TypeGetter(r, d.type)

\* C13: for a callback with no positional-only injected parameter, what
\* resolve_callback_to_getters gives holds for each marker-defaulted parameter
\* the getter its marker stands for, and no callable getter over the
\* Undefined sentinel
C13_GetterKindFollowsMarker ==
  (result.op = "resolve_callback_to_getters" /\ ~HasPositionalOnlyInjected(result.cb))
    => /\ \A i \in 1..Len(result.cb) :
            result.cb[i].default.tag = "marker"
              => \E j \in 1..Len(result.getters) :
                   /\ result.getters[j].name = result.cb[i].name
                   /\ result.getters[j].getter =
                        GetterOfMarker(result.reg, result.cb[i].default)
       /\ \A j \in 1..Len(result.getters) :
            ~(/\ result.getters[j].getter.kind = "callable"
              /\ result.getters[j].getter.key = UNDEFINED)

\* the signature of the wrapped callback is one the attached registry resolves
Resolvable ==
  /\ injector # None
  /\ ResolveCallbackToGettersResult(injector, callback).outcome = "return"

\* C14: after a call on a bound wrapper whose callback resolves, the wrapper
\* holds the getters of resolve_callback_to_getters(callback), and a call
\* performs the resolution exactly when the wrapper holds none yet
C14_GettersResolvedOnce ==
  /\ []((result.op = "call" /\ Resolvable)
          => cached_getters =
               Cached(ResolveCallbackToGettersResult(injector, callback).getters))
  /\ [][(result'.op = "call" /\ Resolvable)
          => (result'.resolved <=> cached_getters.state # "set")]_vars

\* what the parameter named n of cb receives when cb is called with args
ReceivedBy(cb, args, n) ==
  Bind(cb, args).bound[CHOOSE i \in 1..Len(cb) : cb[i].name = n]

\* C15: a call on a bound wrapper over check, with Config registered, applies
\* the getter of cfg and invokes the callback, whose parameter cfg receives
\* the registered value (and not a parameter name)
C15_ValuesSuppliedByName ==
  (/\ result.op = "call"
   /\ callback = CheckCallback
   /\ injector # None
   /\ typeDeps[injector]["Config"] # Absent)
    => /\ result.applied = <<"cfg">>
       /\ result.invoked
       /\ Bind(callback, result.args).outcome = "ok"
       /\ ReceivedBy(callback, result.args, "cfg") = typeDeps[injector]["Config"]

\* C16: a call on a bound wrapper applies the getters in parameter order and
\* invokes the callback only after all of them: over check with Config not
\* registered, the getter of cfg is applied, its unresolved-dependency error
\* is what the caller gets, and the callback is not invoked
C16_GettersBeforeCallback ==
  /\ (/\ result.op = "call"
      /\ injector # None
      /\ result.invoked)
       => result.applied = NamesOf(cached_getters.getters, Len(cached_getters.getters))
  /\ (/\ result.op = "call"
      /\ callback = CheckCallback
      /\ injector # None
      /\ typeDeps[injector]["Config"] = Absent)
       => /\ result.applied = <<"cfg">>
          /\ result.outcome = "RuntimeError"
          /\ result.via = "Couldn't resolve injected type"
          /\ ~result.invoked

\* C17: when the awaitable a bound wrapper got from its callback (here the
\* callback without parameters, the flag not yet decided or deciding for
\* awaiting) raises or is cancelled, the caller gets that very error, the
\* registry stays attached and the wrapper is left with its getters and with
\* the flag that says awaitable
C17_FailedAwaitLeavesWrapperRetryable ==
  [][(/\ result'.op = "call"
      /\ injector # None
      /\ Len(callback) = 0
      /\ is_async # "False"
      /\ result'.shape = "awaitable"
      /\ result'.ends \in {"raise", "cancel"})
       => /\ result'.awaited
          /\ result'.outcome =
               (IF result'.ends = "cancel" THEN "CancelledError" ELSE "Exception")
          /\ injector' = injector
          /\ cached_getters' = Cached(<<>>)
          /\ cached_getters.state = "set" => cached_getters' = cached_getters
          /\ is_async' = "True"]_vars

\* C18 as stated: a type getter for an unregistered type that is the class of
\* the registry's host client or a base class of it returns the context's
\* client
C18_SupertypeOfClientGetsClient ==
  (/\ TypeGetApplied
   /\ typeDeps[result.reg][result.arg] = Absent
   /\ IsSubclass(TypeOfClient(ClientOf(result.reg)), result.arg))
    => /\ result.outcome = "return"
       /\ result.value = result.ctx.client

\* C18 amended: a type getter for an unregistered type that derives from
\* traits.Client returns the context's client, whatever the context's current
\* component is, and its application leaves the component mapping, its
\* snapshot and its identity as they were
C18_ClientTypeGetsContextClient ==
  /\ []((/\ TypeGetApplied
         /\ typeDeps[result.reg][result.arg] = Absent
         /\ IsClientType(result.arg))
          => /\ result.outcome = "return"
             /\ result.value = result.ctx.client
             /\ result.via = "client")
  /\ [][(/\ result'.op = "get"
         /\ getter.kind = "type"
         /\ typeDeps[getter.reg][getter.key] = Absent
         /\ IsClientType(getter.key))
          => UNCHANGED <<heap, mappingRef, snapshot>>]_vars

\* C18 witness: the getter of Bot made by R1, applied to a context of the
\* client bot2 with current component c1 while R1's host holds c1 and R1's
\* mapping is stale, has returned bot2
C18_Witness ==
  /\ TypeGetApplied
  /\ result.arg = "Bot"
  /\ typeDeps["R1"]["Bot"] = Absent
  /\ result.ctx = [client |-> "bot2", component |-> "c1"]
  /\ components["bot1"] = {"c1"}
  /\ snapshot["R1"] = {}
  /\ result.value = "bot2"

\* C19: a type getter for an unregistered component type returns the
\* component that the registry's mapping holds under that type whenever it
\* holds one, otherwise the context's current component when the context has
\* one, and otherwise raises the unresolved-dependency error naming the type
C19_ComponentFromMappingElseContext ==
  (/\ TypeGetApplied
   /\ typeDeps[result.reg][result.arg] = Absent
   /\ ~IsClientType(result.arg)
   /\ IsComponentType(result.arg))
    => IF result.arg \in DOMAIN heap[mappingRef[result.reg]]
       THEN /\ result.outcome = "return"
            /\ result.value = heap[mappingRef[result.reg]][result.arg]
       ELSE IF result.ctx.component # None
       THEN /\ result.outcome = "return"
            /\ result.value = result.ctx.component
       ELSE /\ result.outcome = "RuntimeError"
            /\ result.via = "Couldn't resolve injected type"
            /\ result.value = result.arg

\* C20: a call of _get_component_mapping() that finds the host's set changed
\* empties the dict that was installed, installs and returns another dict,
\* distinct from it and from a dict a caller kept; and a dict a caller kept
\* that is no longer installed holds no entries
C20_RebuildReplacesMapping ==
  /\ [][\A r \in Registries :
          (/\ result'.op = "_get_component_mapping"
           /\ result'.reg = r
           /\ NeedsRebuild(snapshot[r], components[ClientOf(r)]))
            => /\ mappingRef'[r] # mappingRef[r]
               /\ mappingRef'[r] # held
               /\ heap'[mappingRef[r]] = EmptyMapping
               /\ result'.ref = mappingRef'[r]]_vars
  /\ []((held # NoRef /\ \A r \in Registries : mappingRef[r] # held)
          => heap[held] = EmptyMapping)

\* C20 witness: the caller kept the dict of the first rebuild; after another
\* rebuild it is empty and is not the dict now installed, which has entries
C20_Witness ==
  /\ result.op = "_get_component_mapping"
  /\ held = 3
  /\ mappingRef["R1"] # 3
  /\ heap[3] = EmptyMapping
  /\ DOMAIN heap[mappingRef["R1"]] = {"CompA", "CompB"}

====
